---- MODULE Spec2Model ----
(***************************************************************************)
(* A model of two parts of the services repository:                        *)
(*   crates/driver/src/auction_converter.rs          (AuctionConverter)    *)
(*   crates/shared/src/sources/balancer_v2/pool_fetching.rs                *)
(*                                                   (BalancerPoolFetcher) *)
(* The registry, aggregate and cache modules that pool_fetching.rs         *)
(* declares (mod registry; mod aggregate; mod cache;) are modelled from    *)
(* the design document; everything else is translated from the source.     *)
(***************************************************************************)
EXTENDS Integers, Sequences, FiniteSets, TLC

VARIABLES
    run,        \* AuctionConverter.run, the AtomicU64
    calls,      \* the convert_auction calls, in the order they took their run
    extracted,  \* the (pool_id, address) pairs pool_address_from_id produced
    constructed,\* BalancerPoolFetcher::new returned the fetcher
    registry,   \* per pool factory: the pools of its Registry and its sync cursor
    cache,      \* the Cache's entries: per pool, the state read and its block
    refetching, \* the refetches of the Cache that are in flight
    fetchers,   \* the fetch calls on the BalancerPoolFetcher
    returned,   \* what the fetch call that finished last asked for and returned
    head,       \* the chain head
    created,    \* the chain's PoolCreated events: per pool, the block it was created in
    maintained  \* what the run_maintenance call that ran last found and returned

vars == <<run, calls, extracted, constructed, registry, cache,
          refetching, fetchers, returned, head, created, maintained>>

convVars == <<run, calls>>
addrVars == <<extracted>>
registryVars == <<constructed, registry>>
cacheVars == <<cache, refetching>>
chainVars == <<head, created>>
fetchVars == <<constructed, registry, cache, refetching, fetchers,
               returned, head, created, maintained>>

(***************************************************************************)
(* Bounds of the model.                                                    *)
(***************************************************************************)
MaxOrders == 3      \* orders in one auction model
MaxCalls == 3       \* convert_auction calls, auctions drawn from RunAuctionModels
MaxByte == 1        \* the bytes of a pool id that vary take values 0..MaxByte
MaxExtract == 2     \* calls of pool_address_from_id
MaxPools == 3       \* pools the factories ever create
MaxBlock == 2       \* block heights are 0..MaxBlock
MaxFetches == 1     \* fetch calls on one BalancerPoolFetcher, one after the other
MaxFetchers == 3    \* fetch calls on one BalancerPoolFetcher, running concurrently

(***************************************************************************)
(* Result<T>: Ok(value) or Err(message), as anyhow::Result.                *)
(***************************************************************************)
Ok(v) == [tag |-> "Ok", value |-> v]
Err(m) == [tag |-> "Err", msg |-> m]
IsOk(r) == r.tag = "Ok"
IsErr(r) == r.tag = "Err"
NoResult == [tag |-> "None"]

(***************************************************************************)
(* auction_converter.rs                                                    *)
(***************************************************************************)

\* An order of the auction model, as the test's order(sell, buy, with_error)
\* builds it: uid tells the orders of one auction apart, with_error is the
\* inconsistent executed amount that makes normalization fail.
OrderAt(i, f) ==
    [uid |-> i, with_error |-> f.with_error,
     is_liquidity_order |-> f.is_liquidity_order]

OrderLists(n) ==
    { [i \in 1..n |-> OrderAt(i, fl[i])] :
        fl \in [1..n -> [with_error : BOOLEAN, is_liquidity_order : BOOLEAN]] }

\* model::auction::Auction as convert_auction reads it: the competition id,
\* the orders and the prices (well formed or not).
AuctionModels ==
    { [next_solver_competition |-> 3, orders |-> os, prices |-> p] :
        os \in UNION { OrderLists(n) : n \in 0..MaxOrders },
        p \in {"valid", "malformed"} }

\* The auctions the run counter is exercised with: at most one order.
RunAuctionModels == { m \in AuctionModels : Len(m.orders) <= 1 }

\* OrderConverter::normalize_limit_order: the normalized LimitOrder keeps the
\* order's identity and its is_liquidity_order flag.
normalize_limit_order(order) ==
    IF order.with_error
    THEN Err("error normalizing limit order")
    ELSE Ok([id |-> order.uid, is_liquidity_order |-> order.is_liquidity_order])

\* auction.orders.into_iter().filter_map(..).collect::<Vec<_>>()
RECURSIVE filter_map_rev(_)
filter_map_rev(orders) ==
    IF orders = <<>> THEN <<>>
    ELSE LET r == normalize_limit_order(Head(orders))
         IN  IF IsOk(r) THEN filter_map_rev(Tail(orders)) \o <<r.value>>
             ELSE filter_map_rev(Tail(orders))

RECURSIVE filter_map(_)
filter_map(orders) ==
    IF orders = <<>> THEN <<>>
    ELSE LET r == normalize_limit_order(Head(orders))
         IN  IF IsOk(r) THEN <<r.value>> \o filter_map(Tail(orders))
             ELSE filter_map(Tail(orders))

\* orders.iter().any(|o| !o.is_liquidity_order)
any_nonempty(orders) == Len(orders) > 0

any_user_order(orders) ==
    \E i \in 1..Len(orders) : ~orders[i].is_liquidity_order

\* ExternalPrices::try_from_auction_prices(self.native_token, auction.prices)
try_from_auction_prices(prices) ==
    IF prices = "valid" THEN Ok("external_prices") ELSE Err("malformed prices")

\* self.run.fetch_add(1, Ordering::SeqCst): the value stored, and the value
\* returned to the caller (the previous one).  The wrap at 2^64 lies beyond
\* every bound on the number of calls.
fetch_add_stuck(v) == v

fetch_add(v) == v + 1

fetch_add_new(v) == v + 1

fetch_add_returns(v) == v

\* The GasPriceEstimating results: estimate() fails, or gives a gas price.
GasEstimates == {Err("gas price unavailable"), Ok("gas_price")}

\* The Ok(Auction { .. }) of the last statement.
AuctionOf(c) ==
    [id |-> c.model.next_solver_competition, run |-> c.run,
     orders |-> c.orders, liquidity |-> <<>>]

\* The part of convert_auction from filter_map to the await of estimate():
\* the call, after it.
ConvertedCall(c) ==
    LET orders == filter_map(c.model.orders)
        prices == try_from_auction_prices(c.model.prices)
    IN  IF ~any_user_order(orders)
        THEN [c EXCEPT !.pc = "done",
                       !.result = Err("auction contains no user orders")]
        ELSE IF IsErr(prices)
        THEN [c EXCEPT !.pc = "done", !.orders = orders,
                       !.result = Err("malformed acution prices")]
        ELSE [c EXCEPT !.pc = "estimating", !.orders = orders]

\* The part of convert_auction after estimate() resolved to gas.
always_ok(c, gas) ==
    [c EXCEPT !.pc = "done", !.gas = gas.tag, !.result = Ok(AuctionOf(c))]

EstimatedCall(c, gas) ==
    IF IsErr(gas)
    THEN [c EXCEPT !.pc = "done", !.gas = gas.tag,
                   !.result = Err("failed to estimate gas price")]
    ELSE [c EXCEPT !.pc = "done", !.gas = gas.tag, !.result = Ok(AuctionOf(c))]

\* AuctionConverter::new: run = AtomicU64::default().
InitConverter ==
    /\ run = 0
    /\ calls = <<>>

\* convert_auction is polled for the first time: it takes its run.
Begin(model) ==
    /\ calls' = Append(calls, [model |-> model, pc |-> "begun",
                               run |-> fetch_add_returns(run), orders |-> <<>>,
                               gas |-> "None", result |-> NoResult])
    /\ run' = fetch_add(run)
    /\ UNCHANGED <<addrVars, fetchVars>>

\* The call normalizes the orders, checks them and converts the prices.
Convert(c) ==
    /\ calls[c].pc = "begun"
    /\ calls' = [calls EXCEPT ![c] = ConvertedCall(calls[c])]
    /\ UNCHANGED <<run, addrVars, fetchVars>>

\* The gas price estimator answers the call.
Estimate(c, gas) ==
    /\ calls[c].pc = "estimating"
    /\ calls' = [calls EXCEPT ![c] = EstimatedCall(calls[c], gas)]
    /\ UNCHANGED <<run, addrVars, fetchVars>>

(***************************************************************************)
(* pool_fetching.rs: pool_address_from_id                                  *)
(***************************************************************************)
H256Len == 32
H160Len == 20

\* The pool id of the test can_extract_address_from_pool_id:
\* 0x36128d5436d2d70cab39c9af9cce146c38554ff0000200000000000000000009
GnoBalPoolId ==
    <<54, 18, 141, 84, 54, 210, 215, 12, 171, 57, 201, 175, 156, 206, 20, 108,
      56, 85, 79, 240, 0, 2, 0, 0, 0, 0, 0, 0, 0, 0, 0, 9>>

\* and its address, 0x36128d5436d2d70cab39c9af9cce146c38554ff0.
GnoBalAddress ==
    <<54, 18, 141, 84, 54, 210, 215, 12, 171, 57, 201, 175, 156, 206, 20, 108,
      56, 85, 79, 240>>

\* The bytes that vary over the pool ids of the model: the first and last
\* byte of the address part and of the rest.
VaryingBytes == {1, H160Len, H160Len + 1, H256Len}

PoolIds ==
    {GnoBalPoolId} \cup
    { [i \in 1..H256Len |-> IF i \in VaryingBytes THEN b[i] ELSE GnoBalPoolId[i]] :
        b \in [VaryingBytes -> 0..MaxByte] }

\* H160::default()
H160Default == [i \in 1..H160Len |-> 0]

\* address.0.copy_from_slice(&pool_id.0[..20])
copy_from_slice(dst, src) == [i \in 1..Len(dst) |-> src[i]]

pool_address_from_tail(pool_id) ==
    copy_from_slice(H160Default, SubSeq(pool_id, H256Len - H160Len + 1, H256Len))

pool_address_from_id(pool_id) ==
    copy_from_slice(H160Default, SubSeq(pool_id, 1, H160Len))

InitAddress ==
    extracted = {}

\* One call of pool_address_from_id.
ExtractAddress(pool_id) ==
    /\ Cardinality(extracted) < MaxExtract
    /\ extracted' = extracted \cup
           {[pool_id |-> pool_id, address |-> pool_address_from_id(pool_id)]}
    /\ UNCHANGED <<convVars, fetchVars>>


(***************************************************************************)
(* pool_fetching.rs: BalancerPoolFetcher                                   *)
(***************************************************************************)
Pools == 1..MaxPools
Blocks == 0..MaxBlock

\* The registries create_all_pool_fetchers builds, one per pool factory.
Registries == {"weighted", "weighted_2token", "stable"}

\* The factory that creates pool n, and the kind of pool its registry yields.
FactoryOf(n) ==
    CASE n % 3 = 1 -> "weighted"
      [] n % 3 = 2 -> "stable"
      [] OTHER     -> "weighted_2token"

KindOf(n) == IF FactoryOf(n) = "stable" THEN "Stable" ELSE "Weighted"

\* The id of pool n: the pool's address, then the specialization and the
\* nonce the vault appends.
PoolIdOf(n) ==
    [i \in 1..H256Len |-> IF i = 1 \/ i = H256Len THEN n ELSE GnoBalPoolId[i]]

\* Every pool holds the token 0 and a token of its own: the token pair
\* {0, n} is the pair of pool n.
TokenPairs == { {0, n} : n \in Pools }
TokensOf(n) == {0, n}

\* CacheConfig
maximum_age == 1
max_retries == 2

NoEntry == [tag |-> "None"]
Failed == [tag |-> "Failed"]

\* pools::Pool { id, kind }, with the state read from the chain.
PoolOf(n, state) ==
    [id |-> PoolIdOf(n), kind |-> [tag |-> KindOf(n), state |-> state]]

\* The chain: the state of pool n that a read at a block returns.  The swap
\* fee of a pool changes from block to block.
PoolStateAt(n, block) == [swap_fee |-> 1 + ((n + block) % 3)]

\* WeightedPool::new_unpaused and StablePool::new_unpaused.
new_unpaused_flat_fee(pool_id, state) ==
    [common |-> [id |-> pool_id,
                 address |-> pool_address_from_id(pool_id),
                 swap_fee |-> 1,
                 paused |-> FALSE]]

new_unpaused(pool_id, state) ==
    [common |-> [id |-> pool_id,
                 address |-> pool_address_from_id(pool_id),
                 swap_fee |-> state.swap_fee,
                 paused |-> FALSE]]

\* FetchedBalancerPools::default()
FetchedBalancerPoolsDefault == [stable_pools |-> <<>>, weighted_pools |-> <<>>]

\* The closure of the fold in fetch: one pool pushed to its bucket.
push_front(fetched_pools, pool) ==
    IF pool.kind.tag = "Weighted"
    THEN [fetched_pools EXCEPT !.weighted_pools =
              <<new_unpaused(pool.id, pool.kind.state)>> \o @]
    ELSE [fetched_pools EXCEPT !.stable_pools =
              <<new_unpaused(pool.id, pool.kind.state)>> \o @]

push(fetched_pools, pool) ==
    IF pool.kind.tag = "Weighted"
    THEN [fetched_pools EXCEPT !.weighted_pools =
              Append(@, new_unpaused(pool.id, pool.kind.state))]
    ELSE [fetched_pools EXCEPT !.stable_pools =
              Append(@, new_unpaused(pool.id, pool.kind.state))]

\* pools.into_iter().fold(FetchedBalancerPools::default(), ..)
RECURSIVE fold(_, _)
fold(acc, pools) ==
    IF pools = <<>> THEN acc
    ELSE fold(push(acc, Head(pools)), Tail(pools))

\* BalancerPoolFetcher::fetch_pools, given what pools_by_id returned.
fetch_pools_strict(ids, pools_by_id) ==
    IF IsErr(pools_by_id) THEN pools_by_id
    ELSE IF Len(pools_by_id.value) < Cardinality(ids)
    THEN Err("pool missing")
    ELSE Ok(pools_by_id.value)

fetch_pools(ids, pools_by_id) ==
    IF IsErr(pools_by_id) THEN pools_by_id
    ELSE Ok(pools_by_id.value)

\* BalancerPoolFetcher::fetch, given what fetch_pools returned.
fetch(pools) ==
    IF IsErr(pools) THEN pools
    ELSE Ok(fold(FetchedBalancerPoolsDefault, pools.value))

(***************************************************************************)
(* The wrapped fetcher: Cache over Aggregate over the three registries.    *)
(***************************************************************************)
\* Aggregate: the pools of all registries.
KnownPools == UNION { registry[f].pools : f \in Registries }

\* pool_ids_for_token_pairs: the known pools that hold a requested pair.
pool_ids_for_token_pairs(token_pairs) ==
    { n \in KnownPools : \E pair \in token_pairs : pair \subseteq TokensOf(n) }

\* A cached entry serves a request for at_block while it is at most
\* maximum_age blocks older.
IsFresh(n, at_block) ==
    /\ cache[n] # NoEntry
    /\ at_block - cache[n].block <= maximum_age

\* The refetches in flight for pool n.
RefetchesOf(n) == { op \in refetching : op.pool = n }

\* A request for pool n starts a refetch unless one is in flight.
always_refetch(n) == TRUE

StartsRefetch(n) == RefetchesOf(n) = {}

\* What a requester of pool n gets when its refetch ends without a value:
\* the stale entry if there is one, else nothing.
AfterExhausted(n) ==
    IF cache[n] # NoEntry THEN PoolOf(n, cache[n].state) ELSE Failed

\* The fetch calls waiting for pool n get value.
Resolved(n, value) ==
    [r \in DOMAIN fetchers |->
        IF fetchers[r].pc = "fetching" /\ n \in fetchers[r].waiting
        THEN [fetchers[r] EXCEPT !.waiting = @ \ {n},
                                 !.got = [m \in Pools |-> IF m = n THEN value ELSE @[m]]]
        ELSE fetchers[r]]

\* The orders in which pools_by_id may return the pools a call obtained.
Obtained(f) == { n \in f.ids : f.got[n] # Failed }

Orderings(S) ==
    { seq \in [1..Cardinality(S) -> S] : \A i, j \in 1..Cardinality(S) :
                                               i # j => seq[i] # seq[j] }

\* Registry sync: the PoolCreated events of factory f after the cursor and up
\* to the head are replayed, the metadata of every pool not yet known is
\* fetched (meta_ok holds the pools whose fetch succeeds), and only when all
\* of them are inserted does the cursor move to the head.
NotCreated == MaxBlock + 1

EventsOf(f, cursor, to_block) ==
    { n \in Pools : FactoryOf(n) = f /\ created[n] > cursor /\ created[n] <= to_block }

RegistrySyncEager(f, meta_ok) ==
    LET reg == registry[f]
        new == EventsOf(f, reg.cursor, head) \ reg.pools
    IN  IF head <= reg.cursor THEN [registry |-> reg, result |-> Ok("synced")]
        ELSE [registry |-> [pools |-> reg.pools \cup (new \cap meta_ok),
                            cursor |-> head],
              result |-> IF new \subseteq meta_ok THEN Ok("synced")
                         ELSE Err("pool info unavailable")]

RegistrySync(f, meta_ok) ==
    LET reg == registry[f]
        new == EventsOf(f, reg.cursor, head) \ reg.pools
    IN  IF head <= reg.cursor THEN [registry |-> reg, result |-> Ok("synced")]
        ELSE IF new \subseteq meta_ok
        THEN [registry |-> [pools |-> reg.pools \cup new, cursor |-> head],
              result |-> Ok("synced")]
        ELSE [registry |-> reg, result |-> Err("pool info unavailable")]

\* Aggregate: every registry is synced; the maintenance fails if one fails.
AggregateMaintenance(meta_ok) ==
    IF \E f \in Registries : IsErr(RegistrySync(f, meta_ok).result)
    THEN Err("registry maintenance failed")
    ELSE Ok("maintained")

\* Cache: the entries older than the head are read again at the head; an
\* entry whose read fails (read_ok holds the pools whose read succeeds) stays.
CacheRefresh(read_ok) ==
    [n \in Pools |->
        IF cache[n] # NoEntry /\ cache[n].block < head /\ n \in read_ok
        THEN [block |-> head, state |-> PoolStateAt(n, head)]
        ELSE cache[n]]

\* BalancerPoolFetcher::run_maintenance: self.fetcher.run_maintenance().await
run_maintenance(fetcher_result) == fetcher_result

\* A fetch call that returned: its locals are dropped.
Finished(result) ==
    [pc |-> "done", ids |-> {}, waiting |-> {},
     got |-> [n \in Pools |-> Failed], result |-> [tag |-> result.tag]]

\* Before BalancerPoolFetcher::new.
InitFetcher ==
    /\ constructed = FALSE
    /\ registry = [f \in Registries |-> [pools |-> {}, cursor |-> 0]]
    /\ cache = [n \in Pools |-> NoEntry]
    /\ refetching = {}
    /\ fetchers = <<>>
    /\ returned = NoResult
    /\ head = 0
    /\ created = [n \in Pools |-> NotCreated]
    /\ maintained = NoResult

\* BalancerPoolFetcher::new with create_all_pool_fetchers: the pool
\* initializer returned initial_pools, valid through fetched_block_number.
New(initial_pools, fetched_block_number) ==
    /\ ~constructed
    /\ constructed' = TRUE
    /\ registry' = [f \in Registries |->
           [pools |-> { n \in initial_pools : FactoryOf(n) = f },
            cursor |-> fetched_block_number]]
    /\ UNCHANGED <<convVars, addrVars, cacheVars, fetchers, returned,
                   chainVars, maintained>>

\* The chain grows by a block, in which the factories create new_pools.
NewBlock(new_pools) ==
    /\ head < MaxBlock
    /\ \A n \in new_pools : created[n] = NotCreated
    /\ head' = head + 1
    /\ created' = [n \in Pools |-> IF n \in new_pools THEN head + 1 ELSE created[n]]
    /\ UNCHANGED <<convVars, addrVars, registryVars, cacheVars, fetchers,
                   returned, maintained>>

\* run_maintenance on the BalancerPoolFetcher: the Cache syncs the
\* registries through the Aggregate and refreshes its entries.
RunMaintenance(meta_ok, read_ok) ==
    /\ constructed
    /\ registry' = [f \in Registries |-> RegistrySync(f, meta_ok).registry]
    /\ cache' = CacheRefresh(read_ok)
    /\ maintained' =
           [before |-> [f \in Registries |-> registry[f].cursor],
            head |-> head,
            failed |-> { f \in Registries : IsErr(RegistrySync(f, meta_ok).result) },
            result |-> run_maintenance(AggregateMaintenance(meta_ok))]
    /\ UNCHANGED <<convVars, addrVars, constructed, refetching, fetchers,
                   returned, chainVars>>

\* fetch(token_pairs, at_block) up to the point where it waits for the
\* refetches of the stale and missing pools.
FetchBegin(token_pairs, at_block) ==
    /\ constructed
    /\ LET ids == pool_ids_for_token_pairs(token_pairs)
           stale == { n \in ids : ~IsFresh(n, at_block) }
       IN  /\ fetchers' = Append(fetchers,
                  [pc |-> "fetching", ids |-> ids,
                   waiting |-> stale,
                   got |-> [n \in Pools |->
                              IF n \in ids \ stale
                              THEN PoolOf(n, cache[n].state) ELSE Failed],
                   result |-> NoResult])
           /\ refetching' = refetching \cup
                  { [pool |-> n, block |-> at_block, attempt |-> 1,
                     nth |-> Cardinality(RefetchesOf(n)) + 1] :
                        n \in { m \in stale : StartsRefetch(m) } }
    /\ UNCHANGED <<convVars, addrVars, registryVars, cache, returned,
                   chainVars, maintained>>

\* The chain read of a refetch succeeds: the entry is replaced and the
\* requesters get the pool.
ReadOk(op) ==
    /\ cache' = [cache EXCEPT ![op.pool] =
                    [block |-> op.block, state |-> PoolStateAt(op.pool, op.block)]]
    /\ refetching' = refetching \ {op}
    /\ fetchers' = Resolved(op.pool, PoolOf(op.pool, PoolStateAt(op.pool, op.block)))
    /\ UNCHANGED <<convVars, addrVars, registryVars, returned, chainVars,
                   maintained>>

\* The chain read of a refetch fails: it is retried, or with the retries
\* exhausted the requesters get the stale entry or nothing.
ReadFail(op) ==
    /\ IF op.attempt < max_retries
       THEN /\ refetching' = (refetching \ {op}) \cup
                                 {[op EXCEPT !.attempt = @ + 1]}
            /\ UNCHANGED fetchers
       ELSE /\ refetching' = refetching \ {op}
            /\ fetchers' = Resolved(op.pool, AfterExhausted(op.pool))
    /\ UNCHANGED <<convVars, addrVars, registryVars, cache, returned,
                   chainVars, maintained>>

\* Every pool of the call is settled: pools_by_id returns the pools it
\* obtained, in some order, and fetch splits them by kind.
FetchFinish(r, order) ==
    /\ fetchers[r].pc = "fetching"
    /\ fetchers[r].waiting = {}
    /\ LET f == fetchers[r]
           pools_by_id == Ok([i \in 1..Len(order) |-> f.got[order[i]]])
           result == fetch(fetch_pools(f.ids, pools_by_id))
       IN  /\ fetchers' = [fetchers EXCEPT ![r] = Finished(result)]
           /\ returned' = [ids |-> f.ids,
                           failed |-> f.ids \ Obtained(f),
                           pools |-> pools_by_id, result |-> result]
    /\ UNCHANGED <<convVars, addrVars, registryVars, cacheVars, chainVars,
                   maintained>>

(***************************************************************************)
(* Specifications                                                          *)
(***************************************************************************)
Init ==
    /\ InitConverter
    /\ InitAddress
    /\ InitFetcher

\* One conversion, of any auction model.
NextConvert ==
    \/ \E model \in AuctionModels : calls = <<>> /\ Begin(model)
    \/ \E c \in 1..Len(calls) : Convert(c)
    \/ \E c \in 1..Len(calls), gas \in GasEstimates : Estimate(c, gas)

\* Up to MaxCalls conversions on one converter, running concurrently.
NextRun ==
    \/ \E model \in RunAuctionModels : Len(calls) < MaxCalls /\ Begin(model)
    \/ \E c \in 1..Len(calls) : Convert(c)
    \/ \E c \in 1..Len(calls), gas \in GasEstimates : Estimate(c, gas)

NextAddress ==
    \E pool_id \in PoolIds : ExtractAddress(pool_id)

\* No fetch call is waiting for the cache.
NoneFetching == \A r \in 1..Len(fetchers) : fetchers[r].pc = "done"

\* Fetch calls on one BalancerPoolFetcher for any set of token pairs, one
\* call after the other.
NextFetch ==
    \/ \E initial_pools \in SUBSET Pools : New(initial_pools, 0)
    \/ \E token_pairs \in SUBSET TokenPairs, at_block \in Blocks :
           /\ Len(fetchers) < MaxFetches
           /\ NoneFetching
           /\ FetchBegin(token_pairs, at_block)
    \/ \E op \in refetching : ReadOk(op)
    \/ \E op \in refetching : ReadFail(op)
    \/ \E r \in 1..Len(fetchers) :
           \E order \in Orderings(Obtained(fetchers[r])) : FetchFinish(r, order)

\* Fetch calls for the token pair of one pool, running concurrently.
SharedPair == {0, 1}

NextCache ==
    \/ \E initial_pools \in SUBSET Pools : New(initial_pools, 0)
    \/ \E at_block \in Blocks :
           Len(fetchers) < MaxFetchers /\ FetchBegin({SharedPair}, at_block)
    \/ \E op \in refetching : ReadOk(op)
    \/ \E op \in refetching : ReadFail(op)
    \/ \E r \in 1..Len(fetchers) :
           \E order \in Orderings(Obtained(fetchers[r])) : FetchFinish(r, order)

\* The chain grows and the registries are maintained.
\* The pools a maintenance run reads from the chain: those of the events no
\* registry has inserted yet, and those with a cached entry.
NewlyCreated == UNION { EventsOf(f, registry[f].cursor, head) \ registry[f].pools :
                        f \in Registries }

CachedPools == { n \in Pools : cache[n] # NoEntry }

NextMaintenance ==
    \/ \E initial_pools \in SUBSET Pools, fetched_block_number \in Blocks :
           New(initial_pools, fetched_block_number)
    \/ \E new_pools \in SUBSET Pools : NewBlock(new_pools)
    \/ \E meta_ok \in SUBSET NewlyCreated, read_ok \in SUBSET CachedPools :
           RunMaintenance(meta_ok, read_ok)

Next ==
    \/ NextRun
    \/ NextAddress
    \/ NextFetch
    \/ NextCache
    \/ NextMaintenance

SpecConvert == Init /\ [][NextConvert]_vars
SpecRun == Init /\ [][NextRun]_vars
SpecAddress == Init /\ [][NextAddress]_vars
SpecFetch == Init /\ [][NextFetch]_vars
SpecCache == Init /\ [][NextCache]_vars
SpecMaintenance == Init /\ [][NextMaintenance]_vars
Spec == Init /\ [][Next]_vars

(***************************************************************************)
(* Claims about auction_converter.rs                                       *)
(***************************************************************************)
Calls == 1..Len(calls)

\* No order of the model both normalizes and is a user order.
NoGenuineOrder(model) ==
    \A i \in 1..Len(model.orders) :
        model.orders[i].with_error \/ model.orders[i].is_liquidity_order

\* The orders of the model that normalize, normalized, in the model's order.
SurvivingOrders(model) ==
    LET kept == SelectSeq(model.orders, LAMBDA o : ~o.with_error)
    IN  [i \in 1..Len(kept) |->
            [id |-> kept[i].uid, is_liquidity_order |-> kept[i].is_liquidity_order]]

\* C3: a convert_auction call whose auction has no user order left after the
\* orders that fail normalization are dropped (an empty order list and a list
\* of liquidity orders included) never reaches the gas price estimator and
\* returns an error, whatever the prices are.
C3_NoUserOrderIsAnError ==
    \A c \in Calls :
        (calls[c].pc # "begun" /\ NoGenuineOrder(calls[c].model))
            => (calls[c].pc = "done" /\ IsErr(calls[c].result))

\* A finished call, with valid prices, whose only orders were liquidity
\* orders that normalize.
C3_Witness ==
    \E c \in Calls :
        /\ calls[c].pc = "done"
        /\ IsErr(calls[c].result)
        /\ calls[c].model.prices = "valid"
        /\ Len(calls[c].model.orders) > 0
        /\ \A i \in 1..Len(calls[c].model.orders) :
               /\ ~calls[c].model.orders[i].with_error
               /\ calls[c].model.orders[i].is_liquidity_order

\* C4: when convert_auction succeeds, the orders of the auction it returns
\* are the model's orders that normalize, in the model's order, and nothing
\* else; an order that fails normalization does not fail the call.
C4_OrdersAreTheNormalizedOnes ==
    \A c \in Calls :
        IsOk(calls[c].result)
            => calls[c].result.value.orders = SurvivingOrders(calls[c].model)

\* The test's auction: three orders, the third failing normalization; the
\* call succeeds with the first two.
C4_Witness ==
    \E c \in Calls :
        /\ IsOk(calls[c].result)
        /\ Len(calls[c].model.orders) = 3
        /\ calls[c].model.orders[3].with_error
        /\ Len(calls[c].result.value.orders) = 2
        /\ calls[c].result.value.orders[1].id = 1
        /\ calls[c].result.value.orders[2].id = 2

\* C5: the run counter starts at 0; the first call's auction has run 0, the
\* second call's run 1, and the run of every returned auction is greater than
\* the run of every auction an earlier call returned.
C5_RunIncreases ==
    /\ calls = <<>> => run = 0
    /\ \A c \in Calls :
        IsOk(calls[c].result) =>
            /\ c = 1 => calls[c].result.value.run = 0
            /\ c = 2 => calls[c].result.value.run = 1
            /\ \A d \in 1..(c - 1) :
                   IsOk(calls[d].result)
                       => calls[d].result.value.run < calls[c].result.value.run

\* Two calls returned auctions, with run 0 and run 1.
C5_Witness ==
    /\ Len(calls) >= 2
    /\ IsOk(calls[1].result) /\ calls[1].result.value.run = 0
    /\ IsOk(calls[2].result) /\ calls[2].result.value.run = 1

\* C6: a finished convert_auction call returned an error if and only if no
\* user order survived normalization, or the prices could not be converted,
\* or the gas price estimator failed; otherwise it returned an auction.
C6_ErrorIffMeaningless ==
    \A c \in Calls :
        calls[c].pc = "done" =>
            /\ IsOk(calls[c].result) \/ IsErr(calls[c].result)
            /\ IsErr(calls[c].result) <=>
                   \/ NoGenuineOrder(calls[c].model)
                   \/ IsErr(try_from_auction_prices(calls[c].model.prices))
                   \/ calls[c].gas = "Err"

\* A call with a user order and valid prices that failed on the gas price.
C6_Witness ==
    \E c \in Calls :
        /\ calls[c].pc = "done"
        /\ ~NoGenuineOrder(calls[c].model)
        /\ calls[c].model.prices = "valid"
        /\ calls[c].gas = "Err"
        /\ IsErr(calls[c].result)

\* C10: every call takes one run value when it starts: the counter equals the
\* number of calls started, the n calls hold the runs 0..n-1, each once, and a
\* call that fails keeps the run it took.
C10_OneRunPerCall ==
    /\ run = Len(calls)
    /\ \A c \in Calls : calls[c].run = c - 1
    /\ \A c, d \in Calls : c # d => calls[c].run # calls[d].run
    /\ \A c \in Calls :
        IsOk(calls[c].result) => calls[c].result.value.run = calls[c].run

\* Three calls ran concurrently; the second failed and the runs of the
\* returned auctions are 0 and 2.
C10_Witness ==
    /\ Len(calls) = 3
    /\ IsOk(calls[1].result) /\ calls[1].result.value.run = 0
    /\ IsErr(calls[2].result)
    /\ IsOk(calls[3].result) /\ calls[3].result.value.run = 2
    /\ run = 3

(***************************************************************************)
(* Claims about pool_address_from_id                                       *)
(***************************************************************************)
SameLeadingBytes(a, b) == \A i \in 1..H160Len : a[i] = b[i]

\* C1: the address pool_address_from_id returns is 20 bytes long and holds
\* bytes 0..19 of the pool id in the same order, so two ids that agree on
\* their leading 20 bytes get the same address; the id of the GNO-BAL pool
\* gets the address of the test.
C1_AddressIsLeadingBytes ==
    /\ \A e \in extracted :
        /\ Len(e.address) = H160Len
        /\ \A i \in 1..H160Len : e.address[i] = e.pool_id[i]
        /\ e.pool_id = GnoBalPoolId => e.address = GnoBalAddress
    /\ \A e, f \in extracted :
        SameLeadingBytes(e.pool_id, f.pool_id) => e.address = f.address

\* Two different ids with the same leading 20 bytes were converted.
C1_Witness ==
    \E e, f \in extracted :
        /\ e.pool_id # f.pool_id
        /\ SameLeadingBytes(e.pool_id, f.pool_id)
        /\ e.pool_id[H256Len] # f.pool_id[H256Len]
        /\ e.address = f.address

(***************************************************************************)
(* Claims about BalancerPoolFetcher                                        *)
(***************************************************************************)
\* The ids of the pools of a bucket, and of the pools of one kind in the
\* flat list, in their order.
BucketIds(bucket) == [i \in 1..Len(bucket) |-> bucket[i].common.id]

KindIds(pools, kind) ==
    LET of_kind == SelectSeq(pools, LAMBDA pool : pool.kind.tag = kind)
    IN  [i \in 1..Len(of_kind) |-> of_kind[i].id]

Occurrences(ids, id) == Cardinality({ i \in 1..Len(ids) : ids[i] = id })

\* C2: fetch splits the flat list of the wrapped fetcher by kind: the
\* weighted bucket holds the Weighted pools of the list and the stable bucket
\* its Stable pools, each in the order of the list, every pool of the list
\* is in the result once, and the buckets together are as long as the list.
C2_FetchPartitionsByKind ==
    (returned # NoResult /\ IsOk(returned.pools)) =>
        /\ IsOk(returned.result)
        /\ LET pools == returned.pools.value
               weighted == BucketIds(returned.result.value.weighted_pools)
               stable == BucketIds(returned.result.value.stable_pools)
           IN  /\ weighted = KindIds(pools, "Weighted")
               /\ stable = KindIds(pools, "Stable")
               /\ Len(weighted) + Len(stable) = Len(pools)
               /\ \A i \in 1..Len(pools) :
                      Occurrences(weighted \o stable, pools[i].id) = 1

\* The wrapped fetcher returned pool 3, pool 2 and pool 1 in this order: the
\* weighted bucket holds pool 3 and then pool 1, the stable bucket pool 2.
C2_Witness ==
    /\ returned # NoResult
    /\ IsOk(returned.result)
    /\ Len(returned.pools.value) = 3
    /\ returned.pools.value[1].id = PoolIdOf(3)
    /\ returned.pools.value[2].id = PoolIdOf(2)
    /\ BucketIds(returned.result.value.weighted_pools) = <<PoolIdOf(3), PoolIdOf(1)>>
    /\ BucketIds(returned.result.value.stable_pools) = <<PoolIdOf(2)>>

\* The ids of the pools a fetch returned.
ReturnedIds ==
    LET weighted == BucketIds(returned.result.value.weighted_pools)
        stable == BucketIds(returned.result.value.stable_pools)
    IN  { weighted[i] : i \in 1..Len(weighted) } \cup
        { stable[i] : i \in 1..Len(stable) }

C8_CursorOnlyAdvancesOnSuccess ==
    [][constructed =>
        \A f \in Registries :
            /\ registry'[f].cursor >= registry[f].cursor
            /\ registry'[f].cursor # registry[f].cursor =>
                   /\ f \notin maintained'.failed
                   /\ maintained'.before[f] = registry[f].cursor
                   /\ registry'[f].cursor = maintained'.head
                   /\ EventsOf(f, registry[f].cursor, registry'[f].cursor)
                          \subseteq registry'[f].pools
            /\ (maintained' # maintained /\ f \in maintained'.failed) =>
                   /\ registry'[f] = registry[f]
                   /\ IsErr(maintained'.result)]_vars

\* The last run_maintenance failed: one registry could not fetch the
\* metadata of a new pool and kept its cursor behind the head, another one
\* advanced to the head.
C8_Witness ==
    /\ maintained # NoResult
    /\ IsErr(maintained.result)
    /\ \E f, g \in Registries :
        /\ f \in maintained.failed
        /\ registry[f].cursor = maintained.before[f]
        /\ registry[f].cursor < maintained.head
        /\ g \notin maintained.failed
        /\ maintained.before[g] < maintained.head
        /\ registry[g].cursor = maintained.head

\* C9: at most one refetch of a pool is in flight, and every fetch call
\* that waits for a pool waits for that one refetch.
C9_OneRefetchPerPool ==
    /\ \A n \in Pools : Cardinality(RefetchesOf(n)) <= 1
    /\ \A r \in 1..Len(fetchers) :
        \A n \in fetchers[r].waiting : Cardinality(RefetchesOf(n)) = 1

\* Two fetch calls wait for the same pool, whose cached entry is stale, and
\* one refetch of it is in flight.
C9_Witness ==
    \E n \in Pools :
        /\ cache[n] # NoEntry
        /\ Cardinality(RefetchesOf(n)) = 1
        /\ \E r, q \in 1..Len(fetchers) :
            /\ r # q
            /\ n \in fetchers[r].waiting
            /\ n \in fetchers[q].waiting

\* The pools of both buckets of the result a fetch returned.
ReturnedPools ==
    LET weighted == returned.result.value.weighted_pools
        stable == returned.result.value.stable_pools
    IN  { weighted[i] : i \in 1..Len(weighted) } \cup
        { stable[i] : i \in 1..Len(stable) }

\* C11: every pool fetch returns is unpaused, its address is the leading 20
\* bytes of its id, and its id and swap fee are those of the pool the
\* wrapped fetcher returned, whatever the state read for that pool.
C11_CommonStateOfReturnedPools ==
    (returned # NoResult /\ IsOk(returned.result)) =>
        \A pool \in ReturnedPools :
            /\ pool.common.paused = FALSE
            /\ Len(pool.common.address) = H160Len
            /\ SameLeadingBytes(pool.common.address, pool.common.id)
            /\ \E i \in 1..Len(returned.pools.value) :
                LET fetched == returned.pools.value[i]
                IN  /\ fetched.id = pool.common.id
                    /\ fetched.kind.state.swap_fee = pool.common.swap_fee

\* A fetch returned a weighted and a stable pool whose swap fees differ,
\* both as the wrapped fetcher read them.
C11_Witness ==
    /\ returned # NoResult
    /\ IsOk(returned.result)
    /\ \E i, j \in 1..Len(returned.pools.value) :
        LET weighted == returned.pools.value[i]
            stable == returned.pools.value[j]
        IN  /\ weighted.kind.tag = "Weighted"
            /\ stable.kind.tag = "Stable"
            /\ weighted.kind.state.swap_fee # stable.kind.state.swap_fee
            /\ \E w \in 1..Len(returned.result.value.weighted_pools) :
                LET pool == returned.result.value.weighted_pools[w]
                IN  /\ pool.common.id = weighted.id
                    /\ pool.common.swap_fee = weighted.kind.state.swap_fee
                    /\ pool.common.swap_fee > 1
            /\ \E t \in 1..Len(returned.result.value.stable_pools) :
                LET pool == returned.result.value.stable_pools[t]
                IN  /\ pool.common.id = stable.id
                    /\ pool.common.swap_fee = stable.kind.state.swap_fee

====
